---- MODULE Spec2Model ----
(***************************************************************************)
(* Model of the configuration patcher of infrastructure/zk/src/init.ts:    *)
(* updateConfigFile reads a file, splits it into lines, scans the lines    *)
(* into two position indexes, applies an ordered batch of ConfigLine       *)
(* edits to the line buffer and writes the result back.                    *)
(*                                                                         *)
(* Text is modelled character by character: a string is a sequence of      *)
(* one-character strings, so that split, join, trim and the two regular    *)
(* expressions are computed, not assumed.  Recorded line positions are     *)
(* 0-based as in the source; TLA+ sequences are 1-based, so the line at    *)
(* recorded position i is lines[i + 1].                                    *)
(***************************************************************************)
EXTENDS Integers, Sequences, FiniteSets, TLC

\* ------------------------------------------------------------------------
\* Bounds of the model
\* ------------------------------------------------------------------------

\* Largest number of entries of content.split('\n') of an input file.
MaxLines == 3

\* Largest number of ConfigLine edits in one batch.
MaxEdits == 3

\* ------------------------------------------------------------------------
\* Optional values: null / undefined is the empty sequence
\* ------------------------------------------------------------------------

None == <<>>

Some(x) == <<x>>

\* ------------------------------------------------------------------------
\* Inputs: the lines a file is made of, and the edits of a batch
\* ------------------------------------------------------------------------

NL == "\n"

LineAlphabet ==
    { <<"a", "=", "1">>,                    \* a=1
      <<"b", "=", "1">>,                    \* b=1
      <<"[", "s", "]">>,                    \* [s]
      <<"[", "n", "u", "l", "l", "]">>,     \* [null]
      <<"#", "c", "=", "1">>,               \* #c=1
      <<" ", "#", "c", "=", "1">>,          \* a comment after leading blank
      <<>> }                                \* empty line

EditKeys == { <<"a">>, <<"b">> }

EditValues == { None, Some(<<"2">>) }

EditSections == { None, Some(<<"s">>) }

\* interface ConfigLine
ConfigLine == [key : EditKeys, value : EditValues, section : EditSections]

RECURSIVE SeqsUpTo(_, _)
SeqsUpTo(S, n) ==
    IF n = 0 THEN { <<>> }
    ELSE LET shorter == SeqsUpTo(S, n - 1)
         IN  shorter \cup { Append(s, x) : s \in { t \in shorter : Len(t) = n - 1 }, x \in S }

\* The text of a file whose lines are ls: the lines separated by line breaks.
RECURSIVE FileText(_)
FileText(ls) ==
    IF Len(ls) = 1 THEN ls[1]
    ELSE ls[1] \o <<NL>> \o FileText(Tail(ls))

Files == { FileText(ls) : ls \in (SeqsUpTo(LineAlphabet, MaxLines) \ { <<>> }) }

\* ------------------------------------------------------------------------
\* String functions of the runtime, computed on character sequences
\* ------------------------------------------------------------------------

\* Characters matched by \s and removed by trim().
WhiteSpace == { " ", "\t", "\r" }

\* Position of the first occurrence of character c in s at or after from, 0 if none.
FirstIndexOf(s, c, from) ==
    IF \E i \in from..Len(s) : s[i] = c
    THEN CHOOSE i \in from..Len(s) : s[i] = c /\ \A j \in from..(i - 1) : s[j] # c
    ELSE 0

\* content.split('\n')
RECURSIVE split(_, _)
split(s, sep) ==
    LET p == FirstIndexOf(s, sep, 1)
    IN  IF p = 0 THEN <<s>>
        ELSE <<SubSeq(s, 1, p - 1)>> \o split(SubSeq(s, p + 1, Len(s)), sep)

\* A join that ends every line with the separator instead of separating them.
RECURSIVE joinTerminated(_, _)
joinTerminated(ls, sep) ==
    IF Len(ls) = 0 THEN <<>>
    ELSE ls[1] \o <<sep>> \o joinTerminated(Tail(ls), sep)

\* lines.join('\n')
RECURSIVE join(_, _)
join(ls, sep) ==
    IF Len(ls) = 0 THEN <<>>
    ELSE IF Len(ls) = 1 THEN ls[1]
    ELSE ls[1] \o <<sep>> \o join(Tail(ls), sep)

RECURSIVE trimStart(_)
trimStart(s) ==
    IF Len(s) > 0 /\ s[1] \in WhiteSpace THEN trimStart(Tail(s)) ELSE s

RECURSIVE trimEnd(_)
trimEnd(s) ==
    IF Len(s) > 0 /\ s[Len(s)] \in WhiteSpace THEN trimEnd(SubSeq(s, 1, Len(s) - 1)) ELSE s

\* String.prototype.trim
trim(s) == trimEnd(trimStart(s))

\* line.startsWith('#')
startsWith(s, c) == Len(s) > 0 /\ s[1] = c

\* line.match(/^\s*\[([^\]]+)\]\s*$/): the captured group, or None.
sectionMatch(line) ==
    LET t == trimStart(line)
    IN  IF ~startsWith(t, "[") THEN None
        ELSE LET close == FirstIndexOf(t, "]", 2)
             IN  IF close <= 2 THEN None
                 ELSE IF \A i \in (close + 1)..Len(t) : t[i] \in WhiteSpace
                 THEN Some(SubSeq(t, 2, close - 1))
                 ELSE None

\* line.match(/([^=]+)=(.*)/): the first captured group, or None.  The match
\* starts at the first character that is not '=' and the group runs up to
\* the next '='.
keyMatch(line) ==
    IF \A i \in 1..Len(line) : line[i] = "=" THEN None
    ELSE LET start == CHOOSE i \in 1..Len(line) :
                          line[i] # "=" /\ \A j \in 1..(i - 1) : line[j] = "="
             eq == FirstIndexOf(line, "=", start)
         IN  IF eq = 0 THEN None ELSE Some(SubSeq(line, start, eq - 1))

\* Array.prototype.splice(start, deleteCount, ...items) on ls, for start >= 0.
splice(ls, start, deleteCount, items) ==
    LET from == IF start > Len(ls) THEN Len(ls) ELSE start
        count == IF deleteCount > Len(ls) - from THEN Len(ls) - from ELSE deleteCount
    IN  SubSeq(ls, 1, from) \o items \o SubSeq(ls, from + count + 1, Len(ls))

\* `${configLine.key}=${configLine.value}`
keyValueLine(configLine) == configLine.key \o <<"=">> \o configLine.value[1]

\* The property name an object is indexed with: null is converted to "null".
propertyKey(name) == IF name = None THEN <<"n", "u", "l", "l">> ELSE name[1]

\* ------------------------------------------------------------------------
\* The initial scan (the for loop of updateConfigFile)
\* ------------------------------------------------------------------------

\* An assignment that keeps the position already recorded for the name.
setEntryOnce(record, name, i) ==
    [k \in DOMAIN record \cup {name} |-> IF k \in DOMAIN record THEN record[k] ELSE i]

\* record[name] = i
setEntry(record, name, i) ==
    [k \in DOMAIN record \cup {name} |-> IF k = name THEN i ELSE record[k]]

NoEntries == [k \in {} |-> 0]

\* sectionIndices after the loop body has run for line i
scanSection(line, i, sectionIndices) ==
    IF startsWith(line, "#") THEN sectionIndices
    ELSE LET m == sectionMatch(line)
         IN  IF m # None THEN setEntry(sectionIndices, trim(m[1]), i) ELSE sectionIndices

\* lineIndices after the loop body has run for line i
scanKey(line, i, lineIndices) ==
    IF startsWith(line, "#") THEN lineIndices
    ELSE LET m == keyMatch(line)
         IN  IF m # None THEN setEntry(lineIndices, trim(m[1]), i) ELSE lineIndices

RECURSIVE scan(_, _, _, _)
scan(ls, i, lineIdx, sectionIdx) ==
    IF i >= Len(ls) THEN [lineIndices |-> lineIdx, sectionIndices |-> sectionIdx]
    ELSE scan(ls, i + 1, scanKey(ls[i + 1], i, lineIdx), scanSection(ls[i + 1], i, sectionIdx))

\* ------------------------------------------------------------------------
\* State
\* ------------------------------------------------------------------------

VARIABLES
    disk,            \* text of the file at `path`
    input,           \* text of the file when updateConfigFile was called
    pc,              \* "start", "patch" (inside forEach) or "done" (written)
    content,         \* let content
    lines,           \* let lines
    addedContent,    \* let addedContent: None while undefined
    lineIndices,     \* const lineIndices: key -> position
    sectionIndices,  \* const sectionIndices: section name -> position
    configLine,      \* the edit the last forEach iteration handled, None before
    action,          \* the branch that iteration took
    nEdits,          \* number of iterations run
    pending,         \* key=value texts of the iterations that took the append branch
    deleted,         \* keys whose line an iteration removed
    batches,         \* the updatedConfigLines argument of every call so far, when fixed
    written,         \* every text handed to writeFileSync so far
    original,        \* text of the file before the first call
    command,         \* the exported function running: init, reinit or lightweightInit
    initArgs,        \* its arguments and the environment it reads
    ip,              \* number of the `await announced(...)` statement it is at
    phase,           \* where inside that statement it is
    cfg,             \* number of operations updateConfig has completed
    started,         \* names of the tasks started so far, in order
    console,         \* the lines announced() has logged so far
    fileOps          \* the operations updateConfig has completed, in order

\* The state of one call of updateConfigFile.
callVars == <<disk, input, pc, content, lines, addedContent, lineIndices, sectionIndices,
              configLine, action, nEdits, pending, deleted>>

\* The calls made so far.
callerVars == <<batches, written, original>>

\* The run of init, reinit or lightweightInit.
runVars == <<command, initArgs, ip, phase, cfg, started, console, fileOps>>

vars == <<callVars, callerVars, runVars>>

\* None of the exported functions is running.
NoRun ==
    /\ command = "none"
    /\ initArgs = None
    /\ ip = 0
    /\ phase = "none"
    /\ cfg = 0
    /\ started = <<>>
    /\ console = <<>>
    /\ fileOps = <<>>

\* The locals of updateConfigFile before its first statement has run.
Fresh ==
    /\ pc = "start"
    /\ content = <<>>
    /\ lines = <<>>
    /\ addedContent = None
    /\ lineIndices = NoEntries
    /\ sectionIndices = NoEntries
    /\ configLine = None
    /\ action = "NONE"
    /\ nEdits = 0
    /\ pending = <<>>
    /\ deleted = {}

Init ==
    /\ disk \in Files
    /\ input = disk
    /\ pc = "start"
    /\ content = <<>>
    /\ lines = <<>>
    /\ addedContent = None
    /\ lineIndices = NoEntries
    /\ sectionIndices = NoEntries
    /\ configLine = None
    /\ action = "NONE"
    /\ nEdits = 0
    /\ pending = <<>>
    /\ deleted = {}
    /\ batches = <<>>
    /\ written = <<>>
    /\ original = disk
    /\ NoRun

\* readFileSync, split and the scanning loop
Load ==
    /\ pc = "start"
    /\ pc' = "patch"
    /\ content' = disk
    /\ lines' = split(disk, NL)
    /\ LET indexes == scan(lines', 0, NoEntries, NoEntries)
       IN  /\ lineIndices' = indexes.lineIndices
           /\ sectionIndices' = indexes.sectionIndices
    /\ UNCHANGED <<disk, input, addedContent, configLine, action, nEdits, pending, deleted>>

\* ------------------------------------------------------------------------
\* One iteration of updatedConfigLines.forEach
\* ------------------------------------------------------------------------

\* The branch the iteration takes for an edit under the current indexes.
resolve(e, lineIdx, sectionIdx) ==
    IF e.key \in DOMAIN lineIdx
    THEN IF e.value # None THEN "REPLACE" ELSE "DELETE"
    ELSE IF e.value # None
         THEN IF propertyKey(e.section) \in DOMAIN sectionIdx THEN "INSERT" ELSE "APPEND"
         ELSE "NOOP"

\* A replacement that removes nothing: splice(lineIndex, 0, ...).
replaceLineKeepingOld(ls, lineIndex, e) == splice(ls, lineIndex, 0, <<keyValueLine(e)>>)

\* lines.splice(lineIndex, 1, `${key}=${value}`)
replaceLine(ls, lineIndex, e) == splice(ls, lineIndex, 1, <<keyValueLine(e)>>)

\* A removal one position too far: splice(lineIndex + 1, 1).
removeLineBelow(ls, lineIndex) == splice(ls, lineIndex + 1, 1, <<>>)

\* lines.splice(lineIndex, 1)
removeLine(ls, lineIndex) == splice(ls, lineIndex, 1, <<>>)

\* lines.splice(sectionIndex + 1, 0, `${key}=${value}`)
insertLine(ls, sectionIndex, e) == splice(ls, sectionIndex + 1, 0, <<keyValueLine(e)>>)

\* The two loops after a removal: every entry above lineIndex moves up by one.
shiftAfterRemove(indices, lineIndex) ==
    [k \in DOMAIN indices |-> IF indices[k] > lineIndex THEN indices[k] - 1 ELSE indices[k]]

\* A shift that also moves the entry of the header itself: index >= sectionIndex.
shiftFromHeader(indices, sectionIndex) ==
    [k \in DOMAIN indices |-> IF indices[k] >= sectionIndex THEN indices[k] + 1 ELSE indices[k]]

\* The two loops after an insertion: every entry above sectionIndex moves down by one.
shiftAfterInsert(indices, sectionIndex) ==
    [k \in DOMAIN indices |-> IF indices[k] > sectionIndex THEN indices[k] + 1 ELSE indices[k]]

\* addedContent = `${key}=${value}\n`
appendContent(added, e) == Some(keyValueLine(e) \o <<NL>>)

ApplyEdit(e) ==
    /\ pc = "patch"
    /\ nEdits < MaxEdits
    /\ nEdits' = nEdits + 1
    /\ configLine' = Some(e)
    /\ action' = resolve(e, lineIndices, sectionIndices)
    /\ IF e.key \in DOMAIN lineIndices
       THEN LET lineIndex == lineIndices[e.key]
            IN  IF e.value # None
                THEN /\ lines' = replaceLine(lines, lineIndex, e)
                     /\ UNCHANGED <<lineIndices, sectionIndices, addedContent, pending, deleted>>
                ELSE /\ lines' = removeLine(lines, lineIndex)
                     /\ lineIndices' = shiftAfterRemove(lineIndices, lineIndex)
                     /\ sectionIndices' = shiftAfterRemove(sectionIndices, lineIndex)
                     /\ deleted' = deleted \cup {e.key}
                     /\ UNCHANGED <<addedContent, pending>>
       ELSE IF e.value # None
            THEN IF propertyKey(e.section) \in DOMAIN sectionIndices
                 THEN LET sectionIndex == sectionIndices[propertyKey(e.section)]
                      IN  /\ lines' = insertLine(lines, sectionIndex, e)
                          /\ lineIndices' = shiftAfterInsert(lineIndices, sectionIndex)
                          /\ sectionIndices' = shiftAfterInsert(sectionIndices, sectionIndex)
                          /\ UNCHANGED <<addedContent, pending, deleted>>
                 ELSE /\ addedContent' = appendContent(addedContent, e)
                      /\ pending' = Append(pending, keyValueLine(e))
                      /\ UNCHANGED <<lines, lineIndices, sectionIndices, deleted>>
            ELSE UNCHANGED <<lines, lineIndices, sectionIndices, addedContent, pending, deleted>>
    /\ UNCHANGED <<disk, input, pc, content>>

\* ------------------------------------------------------------------------
\* Writing the result
\* ------------------------------------------------------------------------

\* content = lines.join('\n'); if (addedContent) content += addedContent
serialize(ls, added) ==
    IF added # None /\ added[1] # <<>> THEN join(ls, NL) \o added[1] ELSE join(ls, NL)

\* writeFileSync(path, content)
Write ==
    /\ pc = "patch"
    /\ pc' = "done"
    /\ content' = serialize(lines, addedContent)
    /\ disk' = content'
    /\ written' = Append(written, content')
    /\ UNCHANGED <<input, lines, addedContent, lineIndices, sectionIndices,
                   configLine, action, nEdits, pending, deleted>>

\* One call with any batch of at most MaxEdits edits, chosen edit by edit.
Next ==
    \/ Load /\ UNCHANGED <<callerVars, runVars>>
    \/ \E e \in ConfigLine : ApplyEdit(e) /\ UNCHANGED <<callerVars, runVars>>
    \/ Write /\ UNCHANGED <<batches, original, runVars>>

Spec == Init /\ [][Next]_vars

TypeOK ==
    /\ pc \in {"start", "patch", "done", "failed"}
    /\ nEdits \in 0..MaxEdits
    /\ action \in {"NONE", "REPLACE", "DELETE", "INSERT", "APPEND", "NOOP"}

\* ------------------------------------------------------------------------
\* Calls with the whole batch given, and a second call on the result
\* ------------------------------------------------------------------------

\* Largest number of lines of an input file of a call with a given batch.
MaxFileLines == 2

\* Largest number of edits of a given batch.
MaxBatch == 2

ModeKey == <<"l1_batch_commit_data_generator_mode">>

\* The updatedConfigLines of updateExtNodeConfig(validiumMode).
extNodeConfigLines(validiumMode) ==
    << [key |-> ModeKey,
        value |-> IF validiumMode THEN Some(<<"Validium">>) ELSE None,
        section |-> IF validiumMode THEN Some(<<"en">>) ELSE None] >>

BatchLineAlphabet ==
    { ModeKey \o <<"=", "1">>,              \* l1_batch_commit_data_generator_mode=1
      <<"[", "en", "]">>,                   \* [en]
      <<"[", "a", "=", "1", "]">>,          \* [a=1]
      <<" ", "#", "c", "=", "1">>,          \* a comment after leading blank
      <<"x">>,                              \* a line of no recognised form
      <<>> }                                \* empty line

BatchFiles == { FileText(ls) : ls \in (SeqsUpTo(BatchLineAlphabet, MaxFileLines) \ { <<>> }) }

BatchEdits ==
    { extNodeConfigLines(TRUE)[1],
      extNodeConfigLines(FALSE)[1],
      [key |-> ModeKey, value |-> Some(<<"Rollup">>), section |-> Some(<<"en">>)],
      [key |-> ModeKey, value |-> Some(<<"Rollup">>), section |-> None],
      [key |-> <<"b">>, value |-> Some(<<"2">>), section |-> None],
      [key |-> <<"#", "c">>, value |-> None, section |-> None] }

Batches == SeqsUpTo(BatchEdits, MaxBatch)

InitBatch ==
    /\ disk \in BatchFiles
    /\ input = disk
    /\ original = disk
    /\ batches \in { <<b>> : b \in Batches }
    /\ written = <<>>
    /\ Fresh
    /\ NoRun

\* The batch of the call that is running or has just returned.
CurrentBatch == batches[Len(batches)]

\* readFileSync throws: the call ends before any other statement runs.
LoadFail ==
    /\ pc = "start"
    /\ pc' = "failed"
    /\ UNCHANGED <<disk, input, content, lines, addedContent, lineIndices, sectionIndices,
                   configLine, action, nEdits, pending, deleted>>
    /\ UNCHANGED <<callerVars, runVars>>

\* forEach has handled n of the edits of batch b and has more to handle.
forEachHasNext(n, b) == n < Len(b)

\* A loop that hands control to the statements after it without running.
forEachSkipped(n, b) == TRUE

\* forEach has returned: every edit of batch b has been handled.
forEachDone(n, b) == n = Len(b)

\* The next iteration of forEach over the given batch.
ApplyNext ==
    /\ forEachHasNext(nEdits, CurrentBatch)
    /\ ApplyEdit(CurrentBatch[nEdits + 1])
    /\ UNCHANGED <<callerVars, runVars>>

\* The statements after forEach.
WriteBack ==
    /\ forEachDone(nEdits, CurrentBatch)
    /\ Write
    /\ UNCHANGED <<batches, original, runVars>>

\* A new call of updateConfigFile on the same path: fresh locals.
Enter(b) ==
    /\ pc = "done"
    /\ Len(batches) = 1
    /\ batches' = Append(batches, b)
    /\ pc' = "start"
    /\ input' = disk
    /\ content' = <<>>
    /\ lines' = <<>>
    /\ addedContent' = None
    /\ lineIndices' = NoEntries
    /\ sectionIndices' = NoEntries
    /\ configLine' = None
    /\ action' = "NONE"
    /\ nEdits' = 0
    /\ pending' = <<>>
    /\ deleted' = {}
    /\ UNCHANGED <<disk, written, original, runVars>>

\* The caller runs the same patch a second time.
CallAgain == Enter(CurrentBatch)

\* updateExtNodeConfig(true) is followed by updateExtNodeConfig(false).
SwitchBack ==
    /\ CurrentBatch = extNodeConfigLines(TRUE)
    /\ Enter(extNodeConfigLines(FALSE))

NextBatch ==
    \/ Load /\ UNCHANGED <<callerVars, runVars>>
    \/ LoadFail
    \/ ApplyNext
    \/ WriteBack
    \/ CallAgain
    \/ SwitchBack

SpecBatch == InitBatch /\ [][NextBatch]_vars

\* ------------------------------------------------------------------------
\* init, reinit and lightweightInit: sequences of `await announced(fn, task)`
\* ------------------------------------------------------------------------

\* One `await announced(fn, promise)` statement.  kind is "none" when no task
\* is passed, "config" for the synchronous updateConfig and "task" for a
\* promise of another module.
Statement(fn, kind) == [fn |-> fn, kind |-> kind]

When(condition, statements) == IF condition THEN statements ELSE <<>>

ModeLine(validiumMode) ==
    IF validiumMode THEN "Initializing in Validium mode" ELSE "Initializing in Roll-up mode"

\* The statements of init(initArgs), in program order.
initStatements(a) ==
    << Statement(ModeLine(a.validiumMode), "none"),
       Statement("Updating mode configuration", "config") >>
    \o When(~a.CI /\ ~a.skipEnvSetup,
            << Statement("Pulling images", "task"),
               Statement("Checking environment", "task"),
               Statement("Checking git hooks", "task"),
               Statement("Setting up containers", "task") >>)
    \o When(~a.skipSubmodulesCheckout,
            << Statement("Checkout system-contracts submodule", "task") >>)
    \o << Statement("Compiling JS packages", "task"),
          Statement("Compile l2 contracts", "task"),
          Statement("Drop postgres db", "task"),
          Statement("Setup postgres db", "task"),
          Statement("Clean rocksdb", "task"),
          Statement("Clean backups", "task"),
          Statement("Building contracts", "task") >>
    \o When(a.deployTestTokens,
            << Statement("Deploying localhost ERC20 tokens", "task") >>)
    \o << Statement("Deploying L1 verifier", "task"),
          Statement("Reloading env", "task"),
          Statement("Running server genesis setup", "task"),
          Statement("Deploying L1 contracts", "task"),
          Statement("Initializing validator", "task"),
          Statement("Deploying L2 contracts", "task") >>
    \o When(a.includeL2WETH,
            << Statement("Initializing L2 WETH token", "task") >>)
    \o << Statement("Initializing governance", "task") >>

\* The statements of reinit(validiumMode), in program order.
reinitStatements(a) ==
    << Statement(ModeLine(a.validiumMode), "none"),
       Statement("Updating mode configuration", "config"),
       Statement("Setting up containers", "task"),
       Statement("Compiling JS packages", "task"),
       Statement("Compile l2 contracts", "task"),
       Statement("Drop postgres db", "task"),
       Statement("Setup postgres db", "task"),
       Statement("Clean rocksdb", "task"),
       Statement("Clean backups", "task"),
       Statement("Building contracts", "task"),
       Statement("Deploying L1 verifier", "task"),
       Statement("Reloading env", "task"),
       Statement("Running server genesis setup", "task"),
       Statement("Deploying L1 contracts", "task"),
       Statement("Deploying L2 contracts", "task"),
       Statement("Initializing L2 WETH token", "task"),
       Statement("Initializing governance", "task"),
       Statement("Initializing validator", "task") >>

\* The statements of lightweightInit(validiumMode), in program order.
lightweightInitStatements(a) ==
    << Statement(ModeLine(a.validiumMode), "none"),
       Statement("Updating mode configuration", "config"),
       Statement("Setting up containers", "task"),
       Statement("Clean rocksdb", "task"),
       Statement("Clean backups", "task"),
       Statement("Deploying L1 verifier", "task"),
       Statement("Reloading env", "task"),
       Statement("Running server genesis setup", "task"),
       Statement("Deploying localhost ERC20 tokens", "task"),
       Statement("Deploying L1 contracts", "task"),
       Statement("Initializing validator", "task"),
       Statement("Deploying L2 contracts", "task"),
       Statement("Initializing governance", "task") >>

Statements ==
    IF command = "init" THEN initStatements(initArgs)
    ELSE IF command = "reinit" THEN reinitStatements(initArgs)
    ELSE lightweightInitStatements(initArgs)

CHAIN_CONFIG_PATH == "etc/env/base/chain.toml"

ETH_SENDER_PATH == "etc/env/base/eth_sender.toml"

EXT_NODE_PATH == "etc/env/ext-node.toml"

ENV_FILE == "process.env.ENV_FILE"

FileOp(op, path) == <<op, path>>

\* An updateConfig that compiles the configuration before ext-node.toml is patched.
updateConfigOpsCompilingEarly ==
    << FileOp("read", CHAIN_CONFIG_PATH), FileOp("write", CHAIN_CONFIG_PATH),
       FileOp("read", ETH_SENDER_PATH), FileOp("write", ETH_SENDER_PATH),
       FileOp("compile", "config"),
       FileOp("read", EXT_NODE_PATH), FileOp("write", EXT_NODE_PATH),
       FileOp("read", ENV_FILE), FileOp("write", ENV_FILE) >>

\* The operations of updateConfig, in program order: three calls of
\* updateConfigFile (a read, then a write), compileConfig, the env file.
updateConfigOps ==
    << FileOp("read", CHAIN_CONFIG_PATH), FileOp("write", CHAIN_CONFIG_PATH),
       FileOp("read", ETH_SENDER_PATH), FileOp("write", ETH_SENDER_PATH),
       FileOp("read", EXT_NODE_PATH), FileOp("write", EXT_NODE_PATH),
       FileOp("compile", "config"),
       FileOp("read", ENV_FILE), FileOp("write", ENV_FILE) >>

InitArgs ==
    [skipSubmodulesCheckout : BOOLEAN, skipEnvSetup : BOOLEAN, CI : BOOLEAN,
     deployTestTokens : BOOLEAN, includeL2WETH : BOOLEAN, validiumMode : BOOLEAN]

\* reinit and lightweightInit take validiumMode only.
ModeArgs ==
    { a \in InitArgs : /\ ~a.skipSubmodulesCheckout /\ ~a.skipEnvSetup /\ ~a.CI
                       /\ a.deployTestTokens /\ a.includeL2WETH }

InitRun ==
    /\ command \in {"init", "reinit", "lightweightInit"}
    /\ initArgs \in (IF command = "init" THEN InitArgs ELSE ModeArgs)
    /\ ip = 1
    /\ phase = "eval"
    /\ cfg = 0
    /\ started = <<>>
    /\ console = <<>>
    /\ fileOps = <<>>
    /\ disk = <<>>
    /\ input = <<>>
    /\ original = <<>>
    /\ batches = <<>>
    /\ written = <<>>
    /\ Fresh

\* The argument of announced() is evaluated: the task starts.
Eval ==
    /\ phase = "eval"
    /\ LET st == Statements[ip]
       IN  /\ started' = Append(started, st.fn)
           /\ phase' = IF st.kind = "config" THEN "config" ELSE "announce"
    /\ cfg' = 0
    /\ UNCHANGED <<command, initArgs, ip, console, fileOps>>
    /\ UNCHANGED <<callVars, callerVars>>

\* The next operation of updateConfig completes.
ConfigOp ==
    /\ phase = "config"
    /\ cfg < Len(updateConfigOps)
    /\ fileOps' = Append(fileOps, updateConfigOps[cfg + 1])
    /\ cfg' = cfg + 1
    /\ UNCHANGED <<command, initArgs, ip, phase, started, console>>
    /\ UNCHANGED <<callVars, callerVars>>

\* The phase after a swallowed error: on to the next statement.
onErrorContinue(i, statements) == IF i = Len(statements) THEN "returned" ELSE "eval"

\* The phase after a throw or a rejected promise: the exported function ends.
onError(i, statements) == "aborted"

\* The next operation of updateConfig throws.
ConfigThrow ==
    /\ phase = "config"
    /\ cfg < Len(updateConfigOps)
    /\ phase' = onError(ip, Statements)
    /\ ip' = IF phase' = "aborted" THEN ip ELSE ip + 1
    /\ UNCHANGED <<command, initArgs, cfg, started, console, fileOps>>
    /\ UNCHANGED <<callVars, callerVars>>

\* updateConfig returns and announced() is called.
ConfigReturn ==
    /\ phase = "config"
    /\ cfg = Len(updateConfigOps)
    /\ phase' = "announce"
    /\ UNCHANGED <<command, initArgs, ip, cfg, started, console, fileOps>>
    /\ UNCHANGED <<callVars, callerVars>>

\* announced() logs the separator and the announce line.
Announce ==
    /\ phase = "announce"
    /\ console' = Append(console, <<">", Statements[ip].fn>>)
    /\ phase' = "await"
    /\ UNCHANGED <<command, initArgs, ip, cfg, started, fileOps>>
    /\ UNCHANGED <<callVars, callerVars>>

\* `await promise` returns: announced() logs the success line and returns.
Resolve ==
    /\ phase = "await"
    /\ console' = Append(console, <<"done", Statements[ip].fn>>)
    /\ phase' = IF ip = Len(Statements) THEN "returned" ELSE "eval"
    /\ ip' = IF ip = Len(Statements) THEN ip ELSE ip + 1
    /\ UNCHANGED <<command, initArgs, cfg, started, fileOps>>
    /\ UNCHANGED <<callVars, callerVars>>

\* `await promise` throws: the task has failed.
Reject ==
    /\ phase = "await"
    /\ Statements[ip].kind = "task"
    /\ phase' = onError(ip, Statements)
    /\ ip' = IF phase' = "aborted" THEN ip ELSE ip + 1
    /\ UNCHANGED <<command, initArgs, cfg, started, console, fileOps>>
    /\ UNCHANGED <<callVars, callerVars>>

NextRun ==
    \/ Eval
    \/ ConfigOp
    \/ ConfigThrow
    \/ ConfigReturn
    \/ Announce
    \/ Resolve
    \/ Reject

SpecInit == InitRun /\ [][NextRun]_vars

\* ------------------------------------------------------------------------
\* Notions the properties are stated with
\* ------------------------------------------------------------------------

\* A step of the forEach loop.
EditStep == pc = "patch" /\ nEdits' = nEdits + 1

\* The edit handled by the iteration that just ran.
LastEdit == configLine[1]

\* A comment line of the file format: its first non-blank character is '#'.
IsComment(line) == startsWith(trimStart(line), "#")

Comments(ls) == SelectSeq(ls, IsComment)

\* The section name a header line carries, None for any other line.
HeaderName(line) ==
    LET m == sectionMatch(line) IN IF m = None THEN None ELSE Some(trim(m[1]))

IsSuffix(t, s) == Len(t) <= Len(s) /\ SubSeq(s, Len(s) - Len(t) + 1, Len(s)) = t

\* The given texts, each as a line of its own ended by a line break.
RECURSIVE TrailingLines(_)
TrailingLines(texts) ==
    IF texts = <<>> THEN <<>> ELSE texts[1] \o <<NL>> \o TrailingLines(Tail(texts))

\* The lines of a text, without the empty last entry a final line break leaves.
TextLines(text) ==
    LET ls == split(text, NL)
    IN  IF ls[Len(ls)] = <<>> THEN SubSeq(ls, 1, Len(ls) - 1) ELSE ls

\* Every position an index records is a line of the buffer ls.
PositionsValid(indices, ls) == \A k \in DOMAIN indices : indices[k] \in 0..(Len(ls) - 1)

\* No position an index records is a comment line of the buffer ls.
NoCommentIndexed(indices, ls) ==
    \A k \in DOMAIN indices : indices[k] < Len(ls) => ~IsComment(ls[indices[k] + 1])

\* The decision table of the edit planner.
Decision(e, keyIndex, sectionIndex) ==
    IF e.key \in DOMAIN keyIndex
    THEN IF e.value # None THEN "REPLACE" ELSE "DELETE"
    ELSE IF e.value = None THEN "NOOP"
    ELSE IF e.section # None /\ e.section[1] \in DOMAIN sectionIndex THEN "INSERT"
    ELSE "APPEND"

\* Entries above the pivot move by delta, entries below it stay.
ShiftedAround(before, after, pivot, delta) ==
    /\ DOMAIN after = DOMAIN before
    /\ \A k \in DOMAIN before :
          /\ before[k] > pivot => after[k] = before[k] + delta
          /\ before[k] < pivot => after[k] = before[k]

\* ------------------------------------------------------------------------
\* Properties
\* ------------------------------------------------------------------------

\* C1: every edit resolved as APPEND contributes its own key=value line at
\* the end of the written file, in the order of the edits; none is lost.
C1_EveryAppendWritten ==
    pc = "done" => IsSuffix(TrailingLines(pending), disk)

\* C2: once an edit has deleted key k, a later edit of the batch for k is
\* resolved as "key does not exist": INSERT, APPEND or NO-OP, never REPLACE
\* or DELETE.
C2_DeletedKeyIsAbsent ==
    [][(EditStep /\ configLine'[1].key \in deleted)
          => action' \in {"INSERT", "APPEND", "NOOP"}]_vars

\* C3: between two edits every position recorded in lineIndices and in
\* sectionIndices is a line of the current buffer.
C3_PositionsValid ==
    pc = "patch" => PositionsValid(lineIndices, lines) /\ PositionsValid(sectionIndices, lines)

\* C4: a comment line is never recorded in an index, never replaced or
\* removed by an edit, and is written back verbatim in the same order.
C4_CommentsUntouched ==
    [][/\ pc' = "patch" => /\ NoCommentIndexed(lineIndices', lines')
                           /\ NoCommentIndexed(sectionIndices', lines')
       /\ EditStep => Comments(lines') = Comments(lines)
       /\ pc' = "done" => Comments(split(disk', NL)) = Comments(split(input, NL))]_vars

\* C5: every edit takes the action the decision table gives for the indexes
\* it finds; a null section or one absent from sectionIndices means APPEND.
C5_DecisionTable ==
    [][EditStep => action' = Decision(configLine'[1], lineIndices, sectionIndices)]_vars

\* C6: a batch of one edit resolved as APPEND writes the original lines
\* followed by key=value as a new line of its own.
C6_AppendIsOwnLine ==
    (pc = "done" /\ nEdits = 1 /\ action = "APPEND")
        => TextLines(disk) = TextLines(input) \o <<keyValueLine(LastEdit)>>

\* C7: an INSERT puts key=value directly after the header of its section,
\* at position sectionIndices[section] + 1, leaves the header's position and
\* all entries at or before it alone and moves every entry after it by one.
C7_InsertAfterHeader ==
    [][(EditStep /\ action' = "INSERT") =>
          LET section == propertyKey(configLine'[1].section)
              sectionIndex == sectionIndices[section]
          IN  /\ sectionIndex < Len(lines)
              /\ HeaderName(lines[sectionIndex + 1]) = Some(section)
              /\ lines' = SubSeq(lines, 1, sectionIndex + 1)
                            \o <<keyValueLine(configLine'[1])>>
                            \o SubSeq(lines, sectionIndex + 2, Len(lines))
              /\ sectionIndices'[section] = sectionIndex
              /\ ShiftedAround(lineIndices, lineIndices', sectionIndex, 1)
              /\ ShiftedAround(sectionIndices, sectionIndices', sectionIndex, 1)]_vars

\* C8: a DELETE of a key recorded at a line d of the buffer removes exactly
\* that line, keeps every other line and its order, moves every entry
\* recorded after d up by one and leaves every entry before d alone.
C8_DeleteRemovesOneLine ==
    [][(EditStep /\ action' = "DELETE" /\ lineIndices[configLine'[1].key] < Len(lines)) =>
          LET d == lineIndices[configLine'[1].key]
          IN  /\ lines' = SubSeq(lines, 1, d) \o SubSeq(lines, d + 2, Len(lines))
              /\ Len(lines') = Len(lines) - 1
              /\ ShiftedAround(lineIndices, lineIndices', d, -1)
              /\ ShiftedAround(sectionIndices, sectionIndices', d, -1)]_vars

\* A DELETE in the middle of the buffer: a header before the removed line,
\* another key after it.
C8_Witness ==
    /\ pc = "patch" /\ nEdits = 1 /\ action = "DELETE"
    /\ Len(lines) = 2
    /\ \E s \in DOMAIN sectionIndices : sectionIndices[s] < lineIndices[LastEdit.key]
    /\ \E k \in DOMAIN lineIndices \ {LastEdit.key} : lineIndices[k] = lineIndices[LastEdit.key]

\* C9: a REPLACE of a key recorded at a line of the buffer turns that line
\* into key=value and changes nothing else: not the number of lines, not
\* another line, not an index.
C9_ReplaceChangesOneLine ==
    [][(EditStep /\ action' = "REPLACE" /\ lineIndices[configLine'[1].key] < Len(lines)) =>
          LET d == lineIndices[configLine'[1].key]
          IN  /\ Len(lines') = Len(lines)
              /\ lines'[d + 1] = keyValueLine(configLine'[1])
              /\ \A i \in 1..Len(lines) : i # d + 1 => lines'[i] = lines[i]
              /\ lineIndices' = lineIndices
              /\ sectionIndices' = sectionIndices]_vars

\* A REPLACE of the middle line of three has changed its text.
C9_Witness ==
    /\ pc = "patch" /\ nEdits = 1 /\ action = "REPLACE"
    /\ Len(lines) = 3
    /\ lineIndices[LastEdit.key] = 1
    /\ lines[2] = keyValueLine(LastEdit)
    /\ lines[2] # split(input, NL)[2]

\* C10: with an empty batch the file written is the file read, line for
\* line, a final empty entry included, and nothing is appended.
C10_EmptyBatchRoundTrip ==
    (pc = "done" /\ nEdits = 0)
        => disk = input /\ split(disk, NL) = lines /\ addedContent = None

\* An empty batch written back for a file of two lines ended by a line break.
C10_Witness ==
    /\ pc = "done" /\ nEdits = 0
    /\ Len(lines) = 3 /\ lines[1] # <<>> /\ lines[3] = <<>>

\* The key a line defines for the scan, None if the key pattern does not match.
KeyOf(line) ==
    LET m == keyMatch(line) IN IF m = None THEN None ELSE Some(trim(m[1]))

\* A key-value line of key k in the file format: no comment, no header.
IsKeyValueLineOf(line, k) ==
    ~IsComment(line) /\ sectionMatch(line) = None /\ KeyOf(line) = Some(k)

\* The positions of ls the scan reads name from, with parse KeyOf or HeaderName.
Occurrences(ls, name, Parse(_)) ==
    { i \in 0..(Len(ls) - 1) : ~startsWith(ls[i + 1], "#") /\ Parse(ls[i + 1]) = Some(name) }

\* name -> its last occurrence in ls, for every name that occurs.
LastOccurrences(ls, Parse(_)) ==
    LET names == { Parse(ls[i])[1] :
                     i \in { j \in 1..Len(ls) : ~startsWith(ls[j], "#") /\ Parse(ls[j]) # None } }
    IN  [n \in names |->
            CHOOSE i \in Occurrences(ls, n, Parse) : \A j \in Occurrences(ls, n, Parse) : j <= i]

RECURSIVE Reverse(_)
Reverse(q) == IF q = <<>> THEN <<>> ELSE Append(Reverse(Tail(q)), q[1])

\* The indexes the scan builds for the file before the first call.
InitialIndexes == scan(split(original, NL), 0, NoEntries, NoEntries)

\* C11: a delete-edit for a key that no key-value line of the file defines
\* leaves buffer, indexes and written text unchanged, on the first call and
\* on a second call with the same edit.
C11_AbsentKeyDeleteIsNoOp ==
    (/\ pc = "done"
     /\ Len(CurrentBatch) = 1
     /\ CurrentBatch[1].value = None
     /\ \A i \in 1..Len(batches) : batches[i] = CurrentBatch
     /\ \A i \in 1..Len(split(original, NL)) :
           ~IsKeyValueLineOf(split(original, NL)[i], CurrentBatch[1].key))
        => /\ disk = original
           /\ \A i \in 1..Len(written) : written[i] = original
           /\ lines = split(original, NL)
           /\ lineIndices = InitialIndexes.lineIndices
           /\ sectionIndices = InitialIndexes.sectionIndices

\* C12: a call writes the file exactly once, after the last edit of its
\* batch; a call whose read fails writes nothing and leaves the file as it
\* found it.
C12_WrittenOnceAfterAllEdits ==
    /\ pc = "done" => /\ Len(written) = Len(batches)
                      /\ nEdits = Len(CurrentBatch)
                      /\ disk = written[Len(written)]
    /\ pc \in {"start", "patch", "failed"} => /\ Len(written) = Len(batches) - 1
                                              /\ disk = input
    /\ pc = "failed" => nEdits = 0 /\ lines = <<>>

\* The first call has written once after its two edits and has changed the
\* file; the read of the second call has failed.
C12_Witness ==
    /\ pc = "failed"
    /\ Len(batches) = 2 /\ Len(batches[1]) = 2
    /\ Len(written) = 1 /\ written[1] = disk
    /\ disk # original

\* C14: between two edits every lineIndices entry k -> i points at a line
\* that defines key k and every sectionIndices entry s -> i points at the
\* header [s].
C14_EntriesPointAtTheirLines ==
    pc = "patch" =>
        /\ \A k \in DOMAIN lineIndices :
              /\ lineIndices[k] < Len(lines)
              /\ KeyOf(lines[lineIndices[k] + 1]) = Some(k)
        /\ \A n \in DOMAIN sectionIndices :
              /\ sectionIndices[n] < Len(lines)
              /\ HeaderName(lines[sectionIndices[n] + 1]) = Some(n)

\* The edits of batch b all set the same key, absent from the initial scan,
\* under the same section, present in the initial scan.
RepeatedInsert(b) ==
    /\ Len(b) >= 2
    /\ \A i \in 1..Len(b) :
          /\ b[i].key = b[1].key
          /\ b[i].section = b[1].section
          /\ b[i].value # None
    /\ b[1].section # None
    /\ b[1].section[1] \in DOMAIN InitialIndexes.sectionIndices
    /\ b[1].key \notin DOMAIN InitialIndexes.lineIndices

\* C15: an inserted key is not added to lineIndices: edits of one batch for
\* the same absent key under the same section each insert a line, so the
\* file written has one line per edit directly after the header, the line of
\* the latest edit first.
C15_SecondInsertDuplicates ==
    (pc = "done" /\ Len(batches) = 1 /\ RepeatedInsert(CurrentBatch)) =>
        LET b == CurrentBatch
            before == split(original, NL)
            header == InitialIndexes.sectionIndices[b[1].section[1]]
        IN  /\ b[1].key \notin DOMAIN lineIndices
            /\ sectionIndices[b[1].section[1]] = header
            /\ split(disk, NL) = SubSeq(before, 1, header + 1)
                                   \o Reverse([i \in 1..Len(b) |-> keyValueLine(b[i])])
                                   \o SubSeq(before, header + 2, Len(before))

\* Two edits with different values for the same absent key under [en], in a
\* file with a line after the header.
C15_Witness ==
    /\ pc = "done" /\ Len(batches) = 1 /\ RepeatedInsert(CurrentBatch)
    /\ CurrentBatch[1].value # CurrentBatch[2].value
    /\ InitialIndexes.sectionIndices[<<"en">>] = 0
    /\ Len(split(original, NL)) = 2

\* C16: the scan records for every key and every section name the position
\* of its last occurrence, and a REPLACE or DELETE leaves every line before
\* the recorded position, earlier occurrences included, unchanged.
C16_LastOccurrenceWins ==
    [][/\ (pc = "start" /\ pc' = "patch") =>
              /\ lineIndices' = LastOccurrences(lines', KeyOf)
              /\ sectionIndices' = LastOccurrences(lines', HeaderName)
       /\ (EditStep /\ action' \in {"REPLACE", "DELETE"}) =>
              \A i \in 1..Len(lines) : i <= lineIndices[configLine'[1].key] => lines'[i] = lines[i]]_vars

\* Of a=1, b=1, a=1 the first edit has deleted the last a=1 and kept the first.
C16_Witness ==
    /\ pc = "patch" /\ nEdits = 1 /\ action = "DELETE"
    /\ split(input, NL) = << <<"a", "=", "1">>, <<"b", "=", "1">>, <<"a", "=", "1">> >>
    /\ lines = << <<"a", "=", "1">>, <<"b", "=", "1">> >>

\* C17: for a batch of edits with distinct keys and non-null values, a
\* second call with the same batch writes the text the first call wrote.
C17_RerunSameResult ==
    (/\ pc = "done"
     /\ Len(batches) = 2
     /\ batches[2] = batches[1]
     /\ \A i \in 1..Len(CurrentBatch) : CurrentBatch[i].value # None
     /\ \A i, j \in 1..Len(CurrentBatch) :
           i # j => CurrentBatch[i].key # CurrentBatch[j].key)
        => written[2] = written[1]

\* C18: for a file with no line for the mode key, updateExtNodeConfig(true)
\* followed by updateExtNodeConfig(false) leaves the file as it was.
C18_ValidiumAndBack ==
    (/\ pc = "done"
     /\ batches = <<extNodeConfigLines(TRUE), extNodeConfigLines(FALSE)>>
     /\ \A i \in 1..Len(split(original, NL)) : KeyOf(split(original, NL)[i]) # Some(ModeKey))
        => disk = original

\* C20: after the scan no line position is recorded both in lineIndices and
\* in sectionIndices.
C20_OneClassPerLine ==
    (pc = "patch" /\ nEdits = 0) =>
        \A k \in DOMAIN lineIndices : \A n \in DOMAIN sectionIndices :
            lineIndices[k] # sectionIndices[n]


\* ------------------------------------------------------------------------
\* The run of init, reinit and lightweightInit
\* ------------------------------------------------------------------------

Names(statements) == [i \in DOMAIN statements |-> statements[i].fn]

Prefix(s, t) == Len(s) <= Len(t) /\ s = SubSeq(t, 1, Len(s))

Logged(line) == \E i \in DOMAIN console : console[i] = line

OpIndex(op) == CHOOSE i \in DOMAIN fileOps : fileOps[i] = op

Done(op) == \E i \in DOMAIN fileOps : fileOps[i] = op

\* Operation b has not happened, or a happened before it.
Before(a, b) == Done(b) => Done(a) /\ OpIndex(a) < OpIndex(b)

\* C13: the steps are started in the listed order; a step is started only
\* after the success line of the step before it; once a step has failed (a
\* rejected task, or a failing file access of the configuration update) the
\* run has ended with that step as the last one started and without a success
\* line for it, and nothing is started or printed after that.
C13_AbortOnFirstFailure ==
    /\ [](/\ Prefix(started, Names(Statements))
          /\ \A i \in DOMAIN started :
                 i < Len(started) => Logged(<<"done", started[i]>>)
          /\ phase = "aborted" =>
                 /\ Len(started) = ip
                 /\ ~Logged(<<"done", Statements[ip].fn>>))
    /\ [][phase = "aborted" => UNCHANGED <<started, console, fileOps>>]_vars

\* A task in the middle of the run has been announced and has failed.
C13_Witness ==
    /\ phase = "aborted"
    /\ Len(started) > 3
    /\ Len(started) < Len(Statements)
    /\ Logged(<<">", Statements[ip].fn>>)
    /\ Logged(<<"done", started[ip - 1]>>)

\* C19: a task of another module is started only when the whole configuration
\* update is done; chain.toml, eth_sender.toml and ext-node.toml are read and
\* written in this order, each written before the next is read; the
\* configuration is compiled after the three writes; so when the update has
\* failed at a file, the files before it are written.
C19_ConfigBeforeActions ==
    /\ (\E i \in DOMAIN started : Statements[i].kind = "task") =>
           /\ Done(FileOp("write", CHAIN_CONFIG_PATH))
           /\ Done(FileOp("write", ETH_SENDER_PATH))
           /\ Done(FileOp("write", EXT_NODE_PATH))
           /\ Done(FileOp("compile", "config"))
           /\ Done(FileOp("write", ENV_FILE))
    /\ \A i, j \in DOMAIN fileOps : fileOps[i] = fileOps[j] => i = j
    /\ Before(FileOp("read", CHAIN_CONFIG_PATH), FileOp("write", CHAIN_CONFIG_PATH))
    /\ Before(FileOp("write", CHAIN_CONFIG_PATH), FileOp("read", ETH_SENDER_PATH))
    /\ Before(FileOp("read", ETH_SENDER_PATH), FileOp("write", ETH_SENDER_PATH))
    /\ Before(FileOp("write", ETH_SENDER_PATH), FileOp("read", EXT_NODE_PATH))
    /\ Before(FileOp("read", EXT_NODE_PATH), FileOp("write", EXT_NODE_PATH))
    /\ Before(FileOp("write", EXT_NODE_PATH), FileOp("compile", "config"))
    /\ Before(FileOp("compile", "config"), FileOp("read", ENV_FILE))
    /\ Before(FileOp("read", ENV_FILE), FileOp("write", ENV_FILE))

\* The update has failed reading ext-node.toml: the two files before it are
\* rewritten and no task has been started.
C19_Witness ==
    /\ phase = "aborted"
    /\ Done(FileOp("write", CHAIN_CONFIG_PATH))
    /\ Done(FileOp("write", ETH_SENDER_PATH))
    /\ ~Done(FileOp("read", EXT_NODE_PATH))
    /\ started = <<ModeLine(initArgs.validiumMode), "Updating mode configuration">>

====
